---- MODULE Spec2Model ----
(***************************************************************************)
(* State-machine model of src/mh_dist_polygon.py (BhuNakshaExtractor):     *)
(*   - get_village_gis_code            (pure function, SpecGis)            *)
(*   - extract_and_save_village_data   (one village, re-runs: SpecVillage) *)
(*   - scrape_districts                (the hierarchy walk: SpecWalk)      *)
(* Strings that the code inspects character by character (names, codes)    *)
(* are tuples of one-character strings, so that str.replace and f-string   *)
(* concatenation are computed and not assumed.                             *)
(***************************************************************************)
EXTENDS Integers, Sequences, FiniteSets, TLC

VARIABLES
    \* ---- the remote service and the file system
    remotePlots,        \* identifier -> plot list the service returns for it
    files,              \* output path -> what is on disk at that path
    \* ---- extract_and_save_village_data: arguments, locals, position
    epc,                \* "idle","entry","checkgis","plist","check","loop","returned","done","raised","killed"
    gis_code, district_name, taluk_name, village_name, output_dir,
    output_path, all_features, existing_plot_nos, village_info,
    plot_list, total_plots, i,
    \* ---- what one call of the extractor has done so far (observation only)
    fetched,            \* plot numbers handed to get_plot_geometry, in order
    sleeps,             \* number of time.sleep calls
    writes,             \* number of open(output_path, 'w') attempts
    failedNos,          \* plot numbers whose fetch / geometry failed in this call
    lastOutcome,        \* latest loop step: "start","skip","failed","saved","unsaved"
    lastData,           \* what get_plot_geometry returned to the latest fetch
    loadedNos,          \* plot numbers of the features of the file the call found
    fileAtStart,        \* the file the call found on disk
    persistedNos,       \* plot numbers of every parseable file loaded or written by this call
    runs,               \* how many times the entry point has been started
    \* ---- scrape_districts: arguments, locals, position
    wpc,                \* "off","start","district","taluks","taluk","village","extract","finished","aborted","crashed"
    category, target_districts, all_districts, dIdx, district_code, district_dir,
    taluks_to_process, tIdx, taluk_code, map_type_code, all_villages, vIdx,
    \* ---- what one walk has done so far (observation only)
    hfetches,           \* <<level, codes>> of every get_hierarchy_data call, in order
    skippedD,           \* positions of target_districts that were skipped
    skippedT,           \* <<district position, taluk position>> of the taluks that were skipped
    visitedD,           \* positions of target_districts the loop has reached
    handed,             \* <<taluk name, village name, identifier>> of every extractor call
    \* ---- get_village_gis_code checked on its own
    gisIn, gisOut, gpc

evars == << epc, gis_code, district_name, taluk_name, village_name, output_dir,
            output_path, all_features, existing_plot_nos, village_info,
            plot_list, total_plots, i, fetched, sleeps, writes, failedNos,
            lastOutcome, lastData, loadedNos, fileAtStart, persistedNos >>
wvars == << wpc, category, target_districts, all_districts, dIdx, district_code,
            district_dir, taluks_to_process, tIdx, taluk_code, map_type_code,
            all_villages, vIdx, hfetches, skippedD, skippedT, visitedD, handed >>
gvars == << gisIn, gisOut, gpc >>
vars  == << remotePlots, files, runs, evars, wvars, gvars >>

-----------------------------------------------------------------------------
(* Bounds of the model *)

\* plot numbers are 1..MaxPlot
MaxPlot == 3
\* longest plot list the service returns
MaxLen == 3
\* how many times the entry point is started on the same output directory
MaxRuns == 2
\* longest code string given to get_village_gis_code in SpecGis
MaxCodeLen == 1

-----------------------------------------------------------------------------
(* Values *)

\* Python's None where a string is expected: a tuple that is no string of
\* single characters, hence different from every code and name.
None == << "None" >>

\* Python truthiness of an optional string: None and "" are falsy.
Truthy(x) == x # None /\ x # << >>

Plots == 1..MaxPlot

\* The code only compares plot numbers for equality, so a plot list is taken
\* up to renaming: a position holds a number used before it or the least
\* number not used yet.
FirstUseOrder(L) ==
    \A k \in 1..Len(L) : \A n \in 1..(L[k] - 1) : \E j \in 1..(k - 1) : L[j] = n

PlotLists == { L \in UNION { [1..n -> Plots] : n \in 0..MaxLen } : FirstUseOrder(L) }

IsDistinct(L) == \A a, b \in 1..Len(L) : a # b => L[a] # L[b]

\* str.replace(a, b) for single characters
Replace(s, a, b) == [k \in 1..Len(s) |-> IF s[k] = a THEN b ELSE s[k]]

\* data_<district name with ' ' -> '_'>
DistrictDir(dname) == << "d", "a", "t", "a", "_" >> \o Replace(dname, " ", "_")

\* <output_dir>/<taluk with ' ' -> '_'>/<village with ' ' and '/' -> '_'>.geojson
OutputPath(odir, tname, vname) ==
    << odir, Replace(tname, " ", "_"), Replace(Replace(vname, " ", "_"), "/", "_") >>

-----------------------------------------------------------------------------
(* The remote hierarchy the model runs against: two districts, three       *)
(* taluks, five villages; two villages of one taluk have names that differ *)
(* only in ' ' against '_', two villages of another have the same name.    *)

Item(v, c) == [value |-> v, code |-> c]

Level1Items == << Item(<< "P" >>, << "1" >>), Item(<< "M" >>, << "2" >>) >>

Level2Items(d) ==
    IF d = << "1" >> THEN << Item(<< "K" >>, << "3" >>), Item(<< "L" >>, << "4" >>) >>
    ELSE IF d = << "2" >> THEN << Item(<< "N" >>, << "8" >>) >>
    ELSE << >>

Level3Items(d, t) ==
    IF d = << "1" >> /\ t = << "3" >>
        THEN << Item(<< "A", " ", "B" >>, << "5" >>), Item(<< "A", "_", "B" >>, << "6" >>) >>
    ELSE IF d = << "1" >> /\ t = << "4" >> THEN << Item(<< "C" >>, << "7" >>) >>
    ELSE IF d = << "2" >> /\ t = << "8" >>
        THEN << Item(<< "D" >>, << "9" >>), Item(<< "D" >>, << "0" >>) >>
    ELSE << >>

MapTypeItems == << Item(<< "V", "M" >>, << "V" >>) >>

DefaultCategory == << "U" >>

SeqRange(s) == { s[k] : k \in 1..Len(s) }

\* every identifier and every output path of this hierarchy
AllTalukItems == UNION { SeqRange(Level2Items(x.code)) : x \in SeqRange(Level1Items) }

AllVillageItems ==
    UNION { SeqRange(Level3Items(x.code, y.code)) :
              x \in SeqRange(Level1Items), y \in AllTalukItems }

WorldVillages ==
    { w \in (SeqRange(Level1Items) \X AllTalukItems \X AllVillageItems) :
        /\ w[2] \in SeqRange(Level2Items(w[1].code))
        /\ w[3] \in SeqRange(Level3Items(w[1].code, w[2].code)) }

GisCodes ==
    { DefaultCategory \o MapTypeItems[1].code \o w[1].code \o w[2].code \o w[3].code :
        w \in WorldVillages }

Paths == { OutputPath(DistrictDir(w[1].value), w[2].value, w[3].value) : w \in WorldVillages }

\* the village SpecVillage extracts
TheDistrict == << "P" >>
TheTaluk == << "K" >>
TheVillage == << "A", " ", "B" >>
TheGis == << "U", "V", "1", "3", "5" >>

-----------------------------------------------------------------------------
(* Files *)

NoMeta == [district |-> << >>, taluk |-> << >>, village |-> << >>, village_info |-> "empty",
           total_plots |-> 0, successful_plots |-> 0, failed_plots |-> 0, gis_code |-> << >>]

\* os.path.exists(output_path) is False
Absent == [kind |-> "absent", features |-> << >>, meta |-> NoMeta]
\* the file exists and json.load raises json.JSONDecodeError (a truncated or
\* empty file whose bytes decode as UTF-8)
BadJson == [kind |-> "badjson", features |-> << >>, meta |-> NoMeta]
\* the file exists and ends inside a multi-byte UTF-8 character (json.dump is
\* called with ensure_ascii=False): f.read() raises UnicodeDecodeError
BadUtf8 == [kind |-> "badutf8", features |-> << >>, meta |-> NoMeta]

IsParseable(f) == f.kind = "json"

\* line 122: 'plotno' in feature.get('properties', {}); 0 stands for "no such key"
HasPlotNo(ft) == ft.plotno # 0

\* lines 120-123
PlotNosOf(features) ==
    { features[k].plotno : k \in { j \in 1..Len(features) : HasPlotNo(features[j]) } }

FilePlotNos(f) == IF IsParseable(f) THEN PlotNosOf(f.features) ELSE {}

-----------------------------------------------------------------------------
(* The plot-detail service and the geometry conversion *)

\* a key the service's record does not carry
NoKey == << "NoKey" >>

\* The attributes of the service's record of a plot besides plotno and
\* the_geom: every record has an owner; the record of the plots numbered 2
\* also has an attribute named village.
RawAttrs(plot_no) ==
    [district |-> NoKey, taluk |-> NoKey,
     village |-> IF plot_no = 2 THEN << "Z" >> ELSE NoKey,
     owner |-> << "o" >>]

\* get_plot_geometry (lines 82-92): None on any request error, otherwise the
\* service's record; the record carries the plot number it was asked for and
\* a WKT string that is missing, unparseable or good.
NoResponse == [ok |-> FALSE, plotno |-> 0, the_geom |-> "absent", raw |-> RawAttrs(0)]

PlotResponses(plot_no) ==
    { NoResponse } \cup
    { [ok |-> TRUE, plotno |-> plot_no, the_geom |-> g, raw |-> RawAttrs(plot_no)] :
        g \in { "absent", "badwkt", "wkt" } }

\* line 156: plot_data and plot_data.get('the_geom')
HasGeometry(plot_data) == plot_data.ok /\ plot_data.the_geom # "absent"

\* wkt_to_geojson (lines 94-102): the mapping, or None when loads/transform raise
wkt_to_geojson(wkt_string) == IF wkt_string = "wkt" THEN "geojson" ELSE "None"

\* YieldsFeature without the test of line 158 (a geometry of None passes)
YieldsFeatureUnchecked(plot_data) == HasGeometry(plot_data)

\* lines 156-158: the plot yields a feature
YieldsFeature(plot_data) ==
    HasGeometry(plot_data) /\ wkt_to_geojson(plot_data.the_geom) # "None"

\* dict.update for one key (line 166): the raw value wins where the record
\* carries the key
DictUpdate(own, raw) == IF raw = NoKey THEN own ELSE raw

\* lines 160-172: the properties of the feature appended for a plot (gis: the
\* identifier the record was fetched under)
NewFeature(plot_data) ==
    [plotno |-> plot_data.plotno,
     district |-> DictUpdate(district_name, plot_data.raw.district),
     taluk |-> DictUpdate(taluk_name, plot_data.raw.taluk),
     village |-> DictUpdate(village_name, plot_data.raw.village),
     owner |-> plot_data.raw.owner,
     gis |-> gis_code]

\* line 183: (i + 1) - len(all_features), i the 0-based position in plot_list
FailedPlots(idx, features) == (idx + 1) - Len(features)

\* lines 174-188
GeoJsonOutput(features, idx) ==
    [kind |-> "json",
     features |-> features,
     meta |-> [district |-> district_name, taluk |-> taluk_name, village |-> village_name,
               village_info |-> village_info, total_plots |-> total_plots,
               successful_plots |-> Len(features),
               failed_plots |-> FailedPlots(idx, features),
               gis_code |-> gis_code]]

\* lines 189-194: open(..., 'w') then json.dump. "noopen": open raises, the
\* file is as before; "badjson"/"badutf8": the dump stops part-way (the disk
\* fills up), leaving a truncated file.
WriteOutcomes == { "ok", "noopen", "badjson", "badutf8" }

FileAfterWrite(old, new, w) ==
    IF w = "ok" THEN new
    ELSE IF w = "noopen" THEN old
    ELSE IF w = "badjson" THEN BadJson ELSE BadUtf8

\* line 192 runs only when the with-block ended without an exception
ExistingAfterWrite(existing, plot_no, w) ==
    IF w = "ok" THEN existing \cup { plot_no } ELSE existing

-----------------------------------------------------------------------------
(* extract_and_save_village_data, lines 104-199 *)

\* lines 114-128: which exception, if any, the load raises past the except clause
LoadRaises(f) == f.kind = "badutf8"

\* LoadedFeatures with line 118 lost: the resume starts from no features
LoadedFeaturesDropped(f) == << >>

\* lines 118, 127
LoadedFeatures(f) == IF IsParseable(f) THEN f.features ELSE << >>

\* lines 119, 112
LoadedVillageInfo(f) == IF IsParseable(f) THEN f.meta.village_info ELSE "empty"

\* LoadedPlotNos with the loop of lines 120-123 lost
LoadedPlotNosForgotten(f) == {}

\* lines 120-123, 128
LoadedPlotNos(f) == IF IsParseable(f) THEN PlotNosOf(f.features) ELSE {}

\* lines 106-128
ExtractLoad ==
    /\ epc = "entry"
    /\ LET path == OutputPath(output_dir, taluk_name, village_name)
           f == files[path]
       IN /\ output_path' = path
          /\ fileAtStart' = f
          /\ all_features' = LoadedFeatures(f)
          /\ village_info' = LoadedVillageInfo(f)
          /\ existing_plot_nos' = LoadedPlotNos(f)
          /\ loadedNos' = FilePlotNos(f)
          /\ persistedNos' = FilePlotNos(f)
          /\ epc' = IF LoadRaises(f) THEN "raised" ELSE "checkgis"
    /\ UNCHANGED << gis_code, district_name, taluk_name, village_name, output_dir,
                    plot_list, total_plots, i, fetched, sleeps, writes, failedNos,
                    lastOutcome, lastData >>
    /\ UNCHANGED << remotePlots, files, runs, wvars, gvars >>

\* lines 130-132
SkipInvalidGis ==
    /\ epc = "checkgis"
    /\ ~Truthy(gis_code)
    /\ epc' = "returned"
    /\ UNCHANGED << gis_code, district_name, taluk_name, village_name, output_dir,
                    output_path, all_features, existing_plot_nos, village_info,
                    plot_list, total_plots, i, fetched, sleeps, writes, failedNos,
                    lastOutcome, lastData, loadedNos, fileAtStart, persistedNos >>
    /\ UNCHANGED << remotePlots, files, runs, wvars, gvars >>

\* line 134: not village_info ({} and None are falsy)
NeedsVillageInfo(info) == info \in { "empty", "none" }

\* lines 134-135; get_village_info (lines 52-62) answers a mapping or None
FetchVillageInfo ==
    /\ epc = "checkgis"
    /\ Truthy(gis_code)
    /\ IF NeedsVillageInfo(village_info)
         THEN \E r \in { "info", "none" } : village_info' = r
         ELSE village_info' = village_info
    /\ epc' = "plist"
    /\ UNCHANGED << gis_code, district_name, taluk_name, village_name, output_dir,
                    output_path, all_features, existing_plot_nos,
                    plot_list, total_plots, i, fetched, sleeps, writes, failedNos,
                    lastOutcome, lastData, loadedNos, fileAtStart, persistedNos >>
    /\ UNCHANGED << remotePlots, files, runs, wvars, gvars >>

\* get_plot_list (lines 70-80): the service's list, or [] on any request error
PlotListAnswers(g) == { remotePlots[g], << >> }

\* NoPlots with an empty list let through
NoPlotsNever(answer) == FALSE

\* line 138: not plot_list
NoPlots(answer) == answer = << >>

\* lines 137-143
FetchPlotList ==
    /\ epc = "plist"
    /\ \E answer \in PlotListAnswers(gis_code) :
          /\ plot_list' = answer
          /\ IF NoPlots(answer)
               THEN epc' = "returned" /\ total_plots' = total_plots
               ELSE epc' = "check" /\ total_plots' = Len(answer)
    /\ UNCHANGED << gis_code, district_name, taluk_name, village_name, output_dir,
                    output_path, all_features, existing_plot_nos, village_info,
                    i, fetched, sleeps, writes, failedNos,
                    lastOutcome, lastData, loadedNos, fileAtStart, persistedNos >>
    /\ UNCHANGED << remotePlots, files, runs, wvars, gvars >>

\* line 145
AllScraped(existing, total) == Cardinality(existing) = total

\* lines 145-147
AlreadyScraped ==
    /\ epc = "check"
    /\ AllScraped(existing_plot_nos, total_plots)
    /\ epc' = "returned"
    /\ UNCHANGED << gis_code, district_name, taluk_name, village_name, output_dir,
                    output_path, all_features, existing_plot_nos, village_info,
                    plot_list, total_plots, i, fetched, sleeps, writes, failedNos,
                    lastOutcome, lastData, loadedNos, fileAtStart, persistedNos >>
    /\ UNCHANGED << remotePlots, files, runs, wvars, gvars >>

\* lines 145, 149: the loop is entered at position 0
EnterLoop ==
    /\ epc = "check"
    /\ ~AllScraped(existing_plot_nos, total_plots)
    /\ epc' = "loop"
    /\ i' = 0
    /\ UNCHANGED << gis_code, district_name, taluk_name, village_name, output_dir,
                    output_path, all_features, existing_plot_nos, village_info,
                    plot_list, total_plots, fetched, sleeps, writes, failedNos,
                    lastOutcome, lastData, loadedNos, fileAtStart, persistedNos >>
    /\ UNCHANGED << remotePlots, files, runs, wvars, gvars >>

\* AlreadyPresent with a membership test that never matches
AlreadyPresentNever(plot_no, existing) == FALSE

\* line 150
AlreadyPresent(plot_no, existing) == plot_no \in existing

\* lines 149-151: continue, without a fetch and without the sleep
LoopSkip ==
    /\ epc = "loop"
    /\ i < Len(plot_list)
    /\ AlreadyPresent(plot_list[i + 1], existing_plot_nos)
    /\ i' = i + 1
    /\ lastOutcome' = "skip"
    /\ UNCHANGED << epc, gis_code, district_name, taluk_name, village_name, output_dir,
                    output_path, all_features, existing_plot_nos, village_info,
                    plot_list, total_plots, fetched, sleeps, writes, failedNos,
                    lastData, loadedNos, fileAtStart, persistedNos >>
    /\ UNCHANGED << remotePlots, files, runs, wvars, gvars >>

\* lines 153-158 and 196-197: the fetch or the geometry fails
PlotFail ==
    /\ epc = "loop"
    /\ i < Len(plot_list)
    /\ ~AlreadyPresent(plot_list[i + 1], existing_plot_nos)
    /\ \E plot_data \in PlotResponses(plot_list[i + 1]) :
          /\ ~YieldsFeature(plot_data)
          /\ lastData' = plot_data
    /\ lastOutcome' = "failed"
    /\ fetched' = Append(fetched, plot_list[i + 1])
    /\ failedNos' = failedNos \cup { plot_list[i + 1] }
    /\ sleeps' = sleeps + 1
    /\ i' = i + 1
    /\ UNCHANGED << epc, gis_code, district_name, taluk_name, village_name, output_dir,
                    output_path, all_features, existing_plot_nos, village_info,
                    plot_list, total_plots, writes, loadedNos, fileAtStart, persistedNos >>
    /\ UNCHANGED << remotePlots, files, runs, wvars, gvars >>

\* lines 153-197: a feature is built, appended and the file rewritten
PlotSuccess ==
    /\ epc = "loop"
    /\ i < Len(plot_list)
    /\ ~AlreadyPresent(plot_list[i + 1], existing_plot_nos)
    /\ \E plot_data \in PlotResponses(plot_list[i + 1]), w \in WriteOutcomes :
          /\ YieldsFeature(plot_data)
          /\ LET features == Append(all_features, NewFeature(plot_data))
                 new == GeoJsonOutput(features, i)
             IN /\ all_features' = features
                /\ files' = [files EXCEPT ![output_path] = FileAfterWrite(@, new, w)]
                /\ existing_plot_nos' = ExistingAfterWrite(existing_plot_nos, plot_list[i + 1], w)
                /\ persistedNos' = IF w = "ok" THEN persistedNos \cup FilePlotNos(new)
                                               ELSE persistedNos
                /\ lastOutcome' = IF w = "ok" THEN "saved" ELSE "unsaved"
                /\ lastData' = plot_data
    /\ fetched' = Append(fetched, plot_list[i + 1])
    /\ writes' = writes + 1
    /\ sleeps' = sleeps + 1
    /\ i' = i + 1
    /\ UNCHANGED << epc, gis_code, district_name, taluk_name, village_name, output_dir,
                    output_path, village_info, plot_list, total_plots, failedNos,
                    loadedNos, fileAtStart >>
    /\ UNCHANGED << remotePlots, runs, wvars, gvars >>

\* lines 149, 199: the list is exhausted
LoopExit ==
    /\ epc = "loop"
    /\ i = Len(plot_list)
    /\ epc' = "done"
    /\ UNCHANGED << gis_code, district_name, taluk_name, village_name, output_dir,
                    output_path, all_features, existing_plot_nos, village_info,
                    plot_list, total_plots, i, fetched, sleeps, writes, failedNos,
                    lastOutcome, lastData, loadedNos, fileAtStart, persistedNos >>
    /\ UNCHANGED << remotePlots, files, runs, wvars, gvars >>

\* the locals of a call that has not started (lines 110-112)
FreshCall ==
    /\ output_path = << >>
    /\ all_features = << >>
    /\ existing_plot_nos = {}
    /\ village_info = "empty"
    /\ plot_list = << >>
    /\ total_plots = 0
    /\ i = 0
    /\ fetched = << >>
    /\ sleeps = 0
    /\ writes = 0
    /\ failedNos = {}
    /\ lastOutcome = "start"
    /\ lastData = NoResponse
    /\ loadedNos = {}
    /\ fileAtStart = Absent
    /\ persistedNos = {}

\* the next call starts from fresh locals (lines 110-112)
ResetLocals ==
    /\ output_path' = << >>
    /\ all_features' = << >>
    /\ existing_plot_nos' = {}
    /\ village_info' = "empty"
    /\ plot_list' = << >>
    /\ total_plots' = 0
    /\ i' = 0
    /\ fetched' = << >>
    /\ sleeps' = 0
    /\ writes' = 0
    /\ failedNos' = {}
    /\ lastOutcome' = "start"
    /\ lastData' = NoResponse
    /\ loadedNos' = {}
    /\ fileAtStart' = Absent
    /\ persistedNos' = {}

ExtractEnded == epc \in { "returned", "done", "raised" }

-----------------------------------------------------------------------------
(* get_village_gis_code, lines 64-68 *)

\* all([...]) over optional strings
AllTruthy(xs) == \A k \in 1..Len(xs) : Truthy(xs[k])

\* get_village_gis_code with self.category left out of the all([...]) test
gis_code_category_unchecked(cat, map_type, district, taluk, village) ==
    IF ~AllTruthy(<< map_type, district, taluk, village >>)
      THEN None
      ELSE cat \o map_type \o district \o taluk \o village

get_village_gis_code(cat, map_type, district, taluk, village) ==
    IF ~AllTruthy(<< cat, map_type, district, taluk, village >>)
      THEN None
      ELSE cat \o map_type \o district \o taluk \o village

-----------------------------------------------------------------------------
(* scrape_districts, lines 202-243 *)

\* {item['value']: item['code'] for item in items}: keys in order of first
\* appearance, each with the code of its last appearance
RECURSIVE DictOf(_)
DictOf(items) ==
    IF items = << >> THEN << >>
    ELSE LET init == DictOf(SubSeq(items, 1, Len(items) - 1))
             last == items[Len(items)]
         IN IF \E k \in 1..Len(init) : init[k].value = last.value
              THEN [k \in 1..Len(init) |-> IF init[k].value = last.value THEN last ELSE init[k]]
              ELSE Append(init, last)

\* dict.get(name): the code, or None
DictGet(dict, name) ==
    IF \E k \in 1..Len(dict) : dict[k].value = name
      THEN dict[CHOOSE k \in 1..Len(dict) : dict[k].value = name].code
      ELSE None

\* get_hierarchy_data (lines 40-50): None on any request error, otherwise the
\* JSON of the answer: a list whose element 0 is the list of children, which
\* may be empty.
ListAnswers(items) ==
    { [ok |-> FALSE, items |-> << >>], [ok |-> TRUE, items |-> << >>],
      [ok |-> TRUE, items |-> items] }

\* lines 206, 223, 234: not response or not response[0]
Unusable(response) == ~response.ok \/ response.items = << >>

\* the element 1 of a level-3 answer: the list with the map-type code, an
\* empty list, or no element 1 at all (a one-element answer)
MapTypeShapes == { "code", "empty", "missing" }

\* line 238 raises IndexError when the answer has no element 1
MapTypeRaises(shape) == shape = "missing"

\* line 238: village_response[1][0]['code'] if village_response[1] else None
MapTypeOf(shape) == IF shape = "code" THEN MapTypeItems[1].code ELSE None

\* f"{self.category}," and its longer forms, as the tuple of its codes
CodesStr(codes) == codes

\* lines 204-209
WalkStart ==
    /\ wpc = "start"
    /\ hfetches' = Append(hfetches, << 1, CodesStr(<< category >>) >>)
    /\ \E district_response \in ListAnswers(Level1Items) :
          IF Unusable(district_response)
            THEN /\ wpc' = "aborted"
                 /\ UNCHANGED << all_districts, dIdx >>
            ELSE /\ all_districts' = DictOf(district_response.items)
                 /\ dIdx' = 1
                 /\ wpc' = "district"
    /\ UNCHANGED << category, target_districts, district_code, district_dir,
                    taluks_to_process, tIdx, taluk_code, map_type_code, all_villages,
                    vIdx, skippedD, skippedT, visitedD, handed >>
    /\ UNCHANGED << remotePlots, files, runs, evars, gvars >>

\* line 211: target_districts is exhausted and the function returns
WalkFinish ==
    /\ wpc = "district"
    /\ dIdx > Len(target_districts)
    /\ wpc' = "finished"
    /\ UNCHANGED << category, target_districts, all_districts, dIdx, district_code,
                    district_dir, taluks_to_process, tIdx, taluk_code, map_type_code,
                    all_villages, vIdx, hfetches, skippedD, skippedT, visitedD, handed >>
    /\ UNCHANGED << remotePlots, files, runs, evars, gvars >>

\* lines 211-215
DistrictNotFound ==
    /\ wpc = "district"
    /\ dIdx <= Len(target_districts)
    /\ ~Truthy(DictGet(all_districts, target_districts[dIdx]))
    /\ district_code' = DictGet(all_districts, target_districts[dIdx])
    /\ visitedD' = visitedD \cup { dIdx }
    /\ skippedD' = skippedD \cup { dIdx }
    /\ dIdx' = dIdx + 1
    /\ UNCHANGED << wpc, category, target_districts, all_districts, district_dir,
                    taluks_to_process, tIdx, taluk_code, map_type_code, all_villages,
                    vIdx, hfetches, skippedT, handed >>
    /\ UNCHANGED << remotePlots, files, runs, evars, gvars >>

\* lines 211-227
DiscoverTaluks ==
    /\ wpc = "district"
    /\ dIdx <= Len(target_districts)
    /\ Truthy(DictGet(all_districts, target_districts[dIdx]))
    /\ LET code == DictGet(all_districts, target_districts[dIdx])
       IN /\ district_code' = code
          /\ district_dir' = DistrictDir(target_districts[dIdx])
          /\ hfetches' = Append(hfetches, << 2, CodesStr(<< category, code >>) >>)
          /\ visitedD' = visitedD \cup { dIdx }
          /\ \E taluk_response \in ListAnswers(Level2Items(code)) :
                IF Unusable(taluk_response)
                  THEN /\ skippedD' = skippedD \cup { dIdx }
                       /\ dIdx' = dIdx + 1
                       /\ UNCHANGED << wpc, taluks_to_process, tIdx >>
                  ELSE /\ taluks_to_process' = DictOf(taluk_response.items)
                       /\ tIdx' = 1
                       /\ wpc' = "taluk"
                       /\ UNCHANGED << skippedD, dIdx >>
    /\ UNCHANGED << category, target_districts, all_districts, taluk_code,
                    map_type_code, all_villages, vIdx, skippedT, handed >>
    /\ UNCHANGED << remotePlots, files, runs, evars, gvars >>

\* line 229: the taluks of the district are exhausted
TaluksDone ==
    /\ wpc = "taluk"
    /\ tIdx > Len(taluks_to_process)
    /\ dIdx' = dIdx + 1
    /\ wpc' = "district"
    /\ UNCHANGED << category, target_districts, all_districts, district_code,
                    district_dir, taluks_to_process, tIdx, taluk_code, map_type_code,
                    all_villages, vIdx, hfetches, skippedD, skippedT, visitedD, handed >>
    /\ UNCHANGED << remotePlots, files, runs, evars, gvars >>

\* lines 229-239
DiscoverVillages ==
    /\ wpc = "taluk"
    /\ tIdx <= Len(taluks_to_process)
    /\ LET code == taluks_to_process[tIdx].code
       IN /\ taluk_code' = code
          /\ hfetches' = Append(hfetches, << 3, CodesStr(<< category, district_code, code >>) >>)
          /\ \E village_response \in ListAnswers(Level3Items(district_code, code)),
                shape \in MapTypeShapes :
                IF Unusable(village_response)
                  THEN /\ skippedT' = skippedT \cup { << dIdx, tIdx >> }
                       /\ tIdx' = tIdx + 1
                       /\ UNCHANGED << wpc, map_type_code, all_villages, vIdx >>
                  ELSE IF MapTypeRaises(shape)
                  THEN /\ wpc' = "crashed"
                       /\ UNCHANGED << skippedT, tIdx, map_type_code, all_villages, vIdx >>
                  ELSE /\ map_type_code' = MapTypeOf(shape)
                       /\ all_villages' = DictOf(village_response.items)
                       /\ vIdx' = 1
                       /\ wpc' = "village"
                       /\ UNCHANGED << skippedT, tIdx >>
    /\ UNCHANGED << category, target_districts, all_districts, dIdx, district_code,
                    district_dir, taluks_to_process, skippedD, visitedD, handed >>
    /\ UNCHANGED << remotePlots, files, runs, evars, gvars >>

\* line 241: the villages of the taluk are exhausted
VillagesDone ==
    /\ wpc = "village"
    /\ vIdx > Len(all_villages)
    /\ tIdx' = tIdx + 1
    /\ wpc' = "taluk"
    /\ UNCHANGED << category, target_districts, all_districts, dIdx, district_code,
                    district_dir, taluks_to_process, taluk_code, map_type_code,
                    all_villages, vIdx, hfetches, skippedD, skippedT, visitedD, handed >>
    /\ UNCHANGED << remotePlots, files, runs, evars, gvars >>

\* lines 241-243: the identifier is built and the extractor is called
HandVillage ==
    /\ wpc = "village"
    /\ vIdx <= Len(all_villages)
    /\ epc = "idle"
    /\ LET g == get_village_gis_code(category, map_type_code, district_code, taluk_code,
                                     all_villages[vIdx].code)
       IN /\ gis_code' = g
          /\ handed' = Append(handed, << taluks_to_process[tIdx].value,
                                         all_villages[vIdx].value, g >>)
    /\ district_name' = target_districts[dIdx]
    /\ taluk_name' = taluks_to_process[tIdx].value
    /\ village_name' = all_villages[vIdx].value
    /\ output_dir' = district_dir
    /\ epc' = "entry"
    /\ wpc' = "extract"
    /\ ResetLocals
    /\ UNCHANGED << category, target_districts, all_districts, dIdx, district_code,
                    district_dir, taluks_to_process, tIdx, taluk_code, map_type_code,
                    all_villages, vIdx, hfetches, skippedD, skippedT, visitedD >>
    /\ UNCHANGED << remotePlots, files, runs, gvars >>

\* line 243: the extractor returns and the loop of line 241 goes on
ExtractReturns ==
    /\ wpc = "extract"
    /\ epc \in { "returned", "done" }
    /\ epc' = "idle"
    /\ vIdx' = vIdx + 1
    /\ wpc' = "village"
    /\ ResetLocals
    /\ UNCHANGED << gis_code, district_name, taluk_name, village_name, output_dir >>
    /\ UNCHANGED << category, target_districts, all_districts, dIdx, district_code,
                    district_dir, taluks_to_process, tIdx, taluk_code, map_type_code,
                    all_villages, hfetches, skippedD, skippedT, visitedD, handed >>
    /\ UNCHANGED << remotePlots, files, runs, gvars >>

\* line 243: an exception of the extractor is caught nowhere in
\* scrape_districts nor in __main__
ExtractRaises ==
    /\ wpc = "extract"
    /\ epc = "raised"
    /\ wpc' = "crashed"
    /\ UNCHANGED << category, target_districts, all_districts, dIdx, district_code,
                    district_dir, taluks_to_process, tIdx, taluk_code, map_type_code,
                    all_villages, vIdx, hfetches, skippedD, skippedT, visitedD, handed >>
    /\ UNCHANGED << remotePlots, files, runs, evars, gvars >>

WalkEnded == wpc \in { "finished", "aborted", "crashed" }

\* what scrape_districts starts from
WalkFresh ==
    /\ all_districts = << >>
    /\ dIdx = 0
    /\ district_code = None
    /\ district_dir = << >>
    /\ taluks_to_process = << >>
    /\ tIdx = 0
    /\ taluk_code = None
    /\ map_type_code = None
    /\ all_villages = << >>
    /\ vIdx = 0
    /\ hfetches = << >>
    /\ skippedD = {}
    /\ skippedT = {}
    /\ visitedD = {}
    /\ handed = << >>

-----------------------------------------------------------------------------
(* Inert values of the parts a specification does not exercise *)

WalkOff ==
    /\ wpc = "off"
    /\ category = DefaultCategory
    /\ target_districts = << >>
    /\ WalkFresh

NoGisInput == [category |-> None, map_type |-> None, district |-> None,
               taluk |-> None, village |-> None]

GisOff ==
    /\ gisIn = NoGisInput
    /\ gisOut = None
    /\ gpc = "off"

-----------------------------------------------------------------------------
(* SpecVillage: extract_and_save_village_data called for one village, again *)
(* and again on the output directory the earlier calls left.                *)

InitVillage ==
    /\ \E L \in PlotLists :
          remotePlots = [g \in GisCodes |-> IF g = TheGis THEN L ELSE << >>]
    /\ files = [p \in Paths |-> Absent]
    /\ runs = 1
    /\ epc = "entry"
    /\ gis_code \in { TheGis, None }
    /\ district_name = TheDistrict
    /\ taluk_name = TheTaluk
    /\ village_name = TheVillage
    /\ output_dir = DistrictDir(TheDistrict)
    /\ FreshCall
    /\ WalkOff
    /\ GisOff

\* the caller runs the extraction of the same village again
VillageRerun ==
    /\ wpc = "off"
    /\ ExtractEnded
    /\ runs < MaxRuns
    /\ runs' = runs + 1
    /\ epc' = "entry"
    /\ ResetLocals
    /\ UNCHANGED << gis_code, district_name, taluk_name, village_name, output_dir >>
    /\ UNCHANGED << remotePlots, files, wvars, gvars >>

NextVillage ==
    \/ ExtractLoad
    \/ SkipInvalidGis
    \/ FetchVillageInfo
    \/ FetchPlotList
    \/ AlreadyScraped
    \/ EnterLoop
    \/ LoopSkip
    \/ PlotFail
    \/ PlotSuccess
    \/ LoopExit
    \/ VillageRerun

SpecVillage == InitVillage /\ [][NextVillage]_vars

-----------------------------------------------------------------------------
(* SpecGis: get_village_gis_code applied to every combination of inputs *)

GisAlphabet == { "0", "1" }

CodeValues ==
    { None } \cup UNION { [1..n -> GisAlphabet] : n \in 0..MaxCodeLen }

InitGis ==
    /\ gisIn \in [category : CodeValues, map_type : CodeValues, district : CodeValues,
                  taluk : CodeValues, village : CodeValues]
    /\ gisOut = None
    /\ gpc = "call"
    /\ remotePlots = [g \in GisCodes |-> << >>]
    /\ files = [p \in Paths |-> Absent]
    /\ runs = 1
    /\ epc = "idle"
    /\ gis_code = None
    /\ district_name = << >>
    /\ taluk_name = << >>
    /\ village_name = << >>
    /\ output_dir = << >>
    /\ FreshCall
    /\ WalkOff

CallGis ==
    /\ gpc = "call"
    /\ gisOut' = get_village_gis_code(gisIn.category, gisIn.map_type, gisIn.district,
                                      gisIn.taluk, gisIn.village)
    /\ gpc' = "ret"
    /\ UNCHANGED << gisIn, remotePlots, files, runs, evars, wvars >>

NextGis == CallGis

SpecGis == InitGis /\ [][NextGis]_vars

-----------------------------------------------------------------------------
(* SpecWalk: scrape_districts run on an empty output directory, and run    *)
(* again on the directory the earlier runs left.                           *)

\* longest list of requested districts
MaxTargets == 2

\* the names a caller asks for: the two districts of the hierarchy and one
\* the service does not know
TargetNames == { << "P" >>, << "M" >>, << "X" >> }

TargetChoices ==
    { t \in UNION { [1..n -> TargetNames] : n \in 1..MaxTargets } : IsDistinct(t) }

\* the village whose name differs from TheVillage only in '_' against ' '
TwinGis == << "U", "V", "1", "3", "6" >>

\* the plot lists of that village; every other village has the one plot 1
WalkPlotLists == { << 1 >>, << 1, 2 >> }

InitWalk ==
    /\ \E L \in WalkPlotLists :
          remotePlots = [g \in GisCodes |-> IF g = TwinGis THEN L ELSE << 1 >>]
    /\ files = [p \in Paths |-> Absent]
    /\ runs = 1
    /\ epc = "idle"
    /\ gis_code = None
    /\ district_name = << >>
    /\ taluk_name = << >>
    /\ village_name = << >>
    /\ output_dir = << >>
    /\ FreshCall
    /\ wpc = "start"
    /\ category = DefaultCategory
    /\ target_districts \in TargetChoices
    /\ WalkFresh
    /\ GisOff

\* the program is started again with the same arguments
WalkRerun ==
    /\ WalkEnded
    /\ runs < MaxRuns
    /\ runs' = runs + 1
    /\ wpc' = "start"
    /\ all_districts' = << >>
    /\ dIdx' = 0
    /\ district_code' = None
    /\ district_dir' = << >>
    /\ taluks_to_process' = << >>
    /\ tIdx' = 0
    /\ taluk_code' = None
    /\ map_type_code' = None
    /\ all_villages' = << >>
    /\ vIdx' = 0
    /\ hfetches' = << >>
    /\ skippedD' = {}
    /\ skippedT' = {}
    /\ visitedD' = {}
    /\ handed' = << >>
    /\ epc' = "idle"
    /\ gis_code' = None
    /\ district_name' = << >>
    /\ taluk_name' = << >>
    /\ village_name' = << >>
    /\ output_dir' = << >>
    /\ ResetLocals
    /\ UNCHANGED << category, target_districts, remotePlots, files, gvars >>

NextWalk ==
    \/ WalkStart
    \/ WalkFinish
    \/ DistrictNotFound
    \/ DiscoverTaluks
    \/ TaluksDone
    \/ DiscoverVillages
    \/ VillagesDone
    \/ HandVillage
    \/ ExtractLoad
    \/ SkipInvalidGis
    \/ FetchVillageInfo
    \/ FetchPlotList
    \/ AlreadyScraped
    \/ EnterLoop
    \/ LoopSkip
    \/ PlotFail
    \/ PlotSuccess
    \/ LoopExit
    \/ ExtractReturns
    \/ ExtractRaises
    \/ WalkRerun

SpecWalk == InitWalk /\ [][NextWalk]_vars

-----------------------------------------------------------------------------
(* SpecResume: one call of extract_and_save_village_data over a file left  *)
(* by earlier runs, which may have seen another plot list.                 *)

\* the elements of a set of numbers in increasing order
SortedSeq(S) ==
    CHOOSE s \in [1..Cardinality(S) -> S] :
        \A a, b \in 1..Cardinality(S) : a < b => s[a] < s[b]

\* a feature as lines 160-172 built it in an earlier run; number 0 is a
\* feature whose properties have no plotno
StoredFeature(n) ==
    [plotno |-> n, district |-> TheDistrict, taluk |-> TheTaluk,
     village |-> DictUpdate(TheVillage, RawAttrs(n).village),
     owner |-> RawAttrs(n).owner, gis |-> TheGis]

\* the file an earlier run wrote with the features numbered S (lines 174-191)
StoredFile(S) ==
    [kind |-> "json",
     features |-> [k \in 1..Cardinality(S) |-> StoredFeature(SortedSeq(S)[k])],
     meta |-> [district |-> TheDistrict, taluk |-> TheTaluk, village |-> TheVillage,
               village_info |-> "info", total_plots |-> Cardinality(S),
               successful_plots |-> Cardinality(S), failed_plots |-> 0,
               gis_code |-> TheGis]]

StoredFiles ==
    { Absent, BadJson, BadUtf8 } \cup { StoredFile(S) : S \in SUBSET (0..MaxPlot) }

ThePath == OutputPath(DistrictDir(TheDistrict), TheTaluk, TheVillage)

InitResume ==
    /\ \E L \in PlotLists :
          remotePlots = [g \in GisCodes |-> IF g = TheGis THEN L ELSE << >>]
    /\ \E f \in StoredFiles :
          files = [p \in Paths |-> IF p = ThePath THEN f ELSE Absent]
    /\ runs = 1
    /\ epc = "entry"
    /\ gis_code \in { TheGis, None }
    /\ district_name = TheDistrict
    /\ taluk_name = TheTaluk
    /\ village_name = TheVillage
    /\ output_dir = DistrictDir(TheDistrict)
    /\ FreshCall
    /\ WalkOff
    /\ GisOff

NextResume ==
    \/ ExtractLoad
    \/ SkipInvalidGis
    \/ FetchVillageInfo
    \/ FetchPlotList
    \/ AlreadyScraped
    \/ EnterLoop
    \/ LoopSkip
    \/ PlotFail
    \/ PlotSuccess
    \/ LoopExit

SpecResume == InitResume /\ [][NextResume]_vars

-----------------------------------------------------------------------------
(* SpecCrash: the process is terminated from outside somewhere in a        *)
(* village's extraction, and the extraction of the village is run again.   *)

\* what a json.dump (line 191) cut short leaves on disk: a file that ends
\* inside the JSON text (or is empty), or inside a multi-byte character
TruncatedFiles == { BadJson, BadUtf8 }

\* the process dies between two writes: the disk is as the last write left it
Terminate ==
    /\ wpc = "off"
    /\ epc \in { "entry", "checkgis", "plist", "check", "loop" }
    /\ epc' = "killed"
    /\ UNCHANGED << gis_code, district_name, taluk_name, village_name, output_dir,
                    output_path, all_features, existing_plot_nos, village_info,
                    plot_list, total_plots, i, fetched, sleeps, writes, failedNos,
                    lastOutcome, lastData, loadedNos, fileAtStart, persistedNos >>
    /\ UNCHANGED << remotePlots, files, runs, wvars, gvars >>

\* the process dies inside the with-block of lines 190-191, after open(..., 'w')
TerminateMidWrite ==
    /\ wpc = "off"
    /\ epc = "loop"
    /\ i < Len(plot_list)
    /\ ~AlreadyPresent(plot_list[i + 1], existing_plot_nos)
    /\ \E plot_data \in PlotResponses(plot_list[i + 1]), cut \in TruncatedFiles :
          /\ YieldsFeature(plot_data)
          /\ all_features' = Append(all_features, NewFeature(plot_data))
          /\ files' = [files EXCEPT ![output_path] = cut]
          /\ lastData' = plot_data
    /\ fetched' = Append(fetched, plot_list[i + 1])
    /\ writes' = writes + 1
    /\ lastOutcome' = "unsaved"
    /\ epc' = "killed"
    /\ UNCHANGED << gis_code, district_name, taluk_name, village_name, output_dir,
                    output_path, existing_plot_nos, village_info, plot_list,
                    total_plots, i, sleeps, failedNos, loadedNos, fileAtStart,
                    persistedNos >>
    /\ UNCHANGED << remotePlots, runs, wvars, gvars >>

\* the extraction of the village is started again after the termination
CrashRerun ==
    /\ wpc = "off"
    /\ epc = "killed"
    /\ runs < MaxRuns
    /\ runs' = runs + 1
    /\ epc' = "entry"
    /\ ResetLocals
    /\ UNCHANGED << gis_code, district_name, taluk_name, village_name, output_dir >>
    /\ UNCHANGED << remotePlots, files, wvars, gvars >>

NextCrash ==
    \/ ExtractLoad
    \/ SkipInvalidGis
    \/ FetchVillageInfo
    \/ FetchPlotList
    \/ AlreadyScraped
    \/ EnterLoop
    \/ LoopSkip
    \/ PlotFail
    \/ PlotSuccess
    \/ LoopExit
    \/ Terminate
    \/ TerminateMidWrite
    \/ CrashRerun

SpecCrash == InitVillage /\ [][NextCrash]_vars

-----------------------------------------------------------------------------
(* Properties *)

Count(L, x) == Cardinality({ k \in 1..Len(L) : L[k] = x })

\* the extractor is inside a call and past the load
Loaded == epc \in { "checkgis", "plist", "check", "loop", "returned", "done" }

\* the file of the village being extracted
CurrentFile == files[output_path]

\* the call resumes from a parseable file whose plot numbers S (loadedNos)
\* all belong to the fetched list L (plot_list), a list of distinct numbers
ResumesWithin ==
    /\ Loaded
    /\ plot_list # << >>
    /\ IsParseable(fileAtStart)
    /\ IsDistinct(plot_list)
    /\ loadedNos \subseteq SeqRange(plot_list)

\* C1 as stated: a re-run over a file holding S, a subset of the distinct list
\* L, requests exactly the plots of L minus S and ends with the feature set
\* exactly L, whatever fails in between.
C1_ResumabilityAsStated ==
    (ResumesWithin /\ epc \in { "returned", "done" }) =>
        /\ SeqRange(fetched) = SeqRange(plot_list) \ loadedNos
        /\ FilePlotNos(CurrentFile) = SeqRange(plot_list)

\* C1 amended: a re-run over a file holding S, a subset of the distinct list
\* L, never requests a plot of S and by its end has requested exactly the
\* plots of L minus S, each once; the features it holds are S plus the plots
\* whose fetch and reprojection succeeded; a parseable file holds S and
\* nothing but those features; and the file's feature set is exactly L when
\* every one of those plots was fetched, reprojected and persisted.
C1_Resumability ==
    ResumesWithin =>
        /\ SeqRange(fetched) \cap loadedNos = {}
        /\ IsDistinct(fetched)
        /\ PlotNosOf(all_features) = loadedNos \cup (SeqRange(fetched) \ failedNos)
        /\ IsParseable(CurrentFile) =>
              /\ loadedNos \subseteq FilePlotNos(CurrentFile)
              /\ FilePlotNos(CurrentFile) \subseteq PlotNosOf(all_features)
        /\ epc \in { "returned", "done" } =>
              /\ SeqRange(fetched) = SeqRange(plot_list) \ loadedNos
              /\ (failedNos = {} /\ existing_plot_nos = SeqRange(plot_list)) =>
                    FilePlotNos(CurrentFile) = SeqRange(plot_list)

\* a resumed run over three plots, one on file, one fetched and saved, one failed
C1_Witness ==
    /\ ResumesWithin
    /\ epc = "done"
    /\ Cardinality(loadedNos) = 1
    /\ Len(plot_list) = 3
    /\ Len(fetched) = 2
    /\ Cardinality(failedNos) = 1
    /\ Cardinality(FilePlotNos(CurrentFile)) = 2

\* C2 as stated: the second run over an unchanged remote data set fetches no
\* plot and leaves the file as the first run left it.
C2_IdempotenceAsStated ==
    (runs >= 2 /\ ExtractEnded) =>
        /\ fetched = << >>
        /\ CurrentFile = fileAtStart

\* the first run left a parseable file that holds every plot of the village's list
LeftComplete ==
    /\ Truthy(gis_code)
    /\ IsParseable(fileAtStart)
    /\ SeqRange(remotePlots[gis_code]) \subseteq FilePlotNos(fileAtStart)

\* C2 amended: when the first run left a file holding every plot of the
\* village's list, a second run against the unchanged remote data set
\* fetches no plot, writes nothing and leaves the file identical.
C2_Idempotence ==
    (runs >= 2 /\ Loaded /\ LeftComplete) =>
        /\ fetched = << >>
        /\ writes = 0
        /\ sleeps = 0
        /\ CurrentFile = fileAtStart

\* a second run that got the two-plot list and returned over a complete file
C2_Witness ==
    /\ runs = 2
    /\ LeftComplete
    /\ epc \in { "returned", "done" }
    /\ Len(plot_list) >= 2
    /\ Cardinality(FilePlotNos(CurrentFile)) >= 2

\* C3: after each successfully persisted plot the file on disk is parseable
\* and holds every plot number of every parseable file this call loaded or
\* wrote before (persistedNos is extended only after the comparison).
C3_MonotonicPersistence ==
    Loaded =>
        /\ lastOutcome = "saved" => IsParseable(CurrentFile)
        /\ IsParseable(CurrentFile) => persistedNos \subseteq FilePlotNos(CurrentFile)

\* a resumed call just wrote its second file, on top of a loaded plot
C3_Witness ==
    /\ Loaded
    /\ lastOutcome = "saved"
    /\ loadedNos # {}
    /\ Cardinality(existing_plot_nos \ loadedNos) = 2
    /\ Cardinality(FilePlotNos(CurrentFile)) = 3

\* C4 as stated: no parseable output file ever holds two features with the
\* same plot number.
C4_OneFeaturePerPlot ==
    \A p \in Paths :
        IsParseable(files[p]) =>
            \A a, b \in 1..Len(files[p].features) :
                a # b => files[p].features[a].plotno # files[p].features[b].plotno

\* C5: get_village_gis_code returns None exactly when one of the five inputs
\* is None or empty, and otherwise the concatenation category, map type,
\* district, taluk, village.
C5_IdentifierTotality ==
    gpc = "ret" =>
        LET missing == \E x \in { gisIn.category, gisIn.map_type, gisIn.district,
                                  gisIn.taluk, gisIn.village } : x = None \/ Len(x) = 0
        IN /\ (gisOut = None) <=> missing
           /\ ~missing =>
                 gisOut = gisIn.category \o gisIn.map_type \o gisIn.district
                             \o gisIn.taluk \o gisIn.village

\* an identifier built from five one-character codes that are not all equal
C5_Witness ==
    /\ gpc = "ret"
    /\ gisOut = << "0", "1", "1", "0", "1" >>

\* C6 as stated: resuming from a proper subset S of the distinct list L with
\* every missing plot fetched, reprojected and persisted, the run fetches only
\* L minus S and the final metadata says successfulPlots = |L|, failedPlots = 0.
C6_ResumeCountersAsStated ==
    (/\ ResumesWithin
     /\ epc = "done"
     /\ loadedNos # SeqRange(plot_list)
     /\ failedNos = {}
     /\ existing_plot_nos = SeqRange(plot_list)) =>
        /\ SeqRange(fetched) = SeqRange(plot_list) \ loadedNos
        /\ IsParseable(CurrentFile)
        /\ CurrentFile.meta.successful_plots = Len(plot_list)
        /\ CurrentFile.meta.failed_plots = 0

\* a step of the loop that asked the service for a plot
FetchStep == Len(fetched') = Len(fetched) + 1

\* the answer carries no usable geometry: nothing, no the_geom, or WKT that
\* does not reproject
NoUsableGeometry(plot_data) ==
    \/ ~plot_data.ok
    \/ plot_data.the_geom \in { "absent", "badwkt" }

\* what a failed plot leaves alone, and where the loop goes
FailureFrame ==
    /\ Len(all_features') = Len(all_features)
    /\ all_features' = all_features
    /\ files' = files
    /\ existing_plot_nos' = existing_plot_nos
    /\ epc' = "loop"
    /\ i' = i + 1

\* C7 as stated: a plot whose fetch or geometry fails adds no feature, leaves
\* the file alone, lets the loop go on to the next plot number, and is not
\* fetched again within the same run.
C7_PlotFailureAsStated ==
    [][ /\ (FetchStep /\ NoUsableGeometry(lastData')) => FailureFrame
        /\ FetchStep => plot_list[i + 1] \notin failedNos ]_vars

\* C7 amended: a plot whose fetch or geometry fails adds no feature, leaves
\* the file alone and lets the loop go on to the next list position; that
\* list position is not fetched again, so the plot is requested again within
\* the run only as often as the plot list names its number again.
C7_PlotFailure ==
    [][ /\ (FetchStep /\ NoUsableGeometry(lastData')) => FailureFrame
        /\ FetchStep =>
              /\ fetched' = Append(fetched, plot_list[i + 1])
              /\ i' = i + 1
              /\ \A p \in Plots :
                    Count(fetched', p) <= Count(SubSeq(plot_list, 1, i'), p) ]_vars

\* after a failed plot the loop has gone on and fetched and saved a later one
C7_Witness ==
    /\ epc = "loop"
    /\ failedNos # {}
    /\ lastOutcome = "saved"
    /\ Len(fetched) = 3
    /\ Len(all_features) = 1

\* C9 as stated: the extractor never raises, and a call that leaves the loop
\* has considered every position of the plot list.
C9_NeverRaisesAsStated ==
    /\ epc # "raised"
    /\ epc = "done" => i = Len(plot_list)

\* a step that skips a requested district: its name is not in the level-1
\* mapping, or its taluk list is unavailable or empty
DistrictSkipStep == Cardinality(skippedD') = Cardinality(skippedD) + 1

\* a step that skips a taluk: its village list is unavailable or empty
TalukSkipStep == Cardinality(skippedT') = Cardinality(skippedT) + 1

\* C8 as stated: a skipped district or taluk costs that branch only: the
\* walker stands at the next sibling, no list fetch is made twice in the run,
\* and once the run is over every requested district has been processed.
C8_BranchSkipAsStated ==
    [][ /\ DistrictSkipStep =>
              /\ dIdx' = dIdx + 1
              /\ wpc' = "district"
              /\ files' = files
              /\ handed' = handed
        /\ TalukSkipStep =>
              /\ tIdx' = tIdx + 1
              /\ dIdx' = dIdx
              /\ wpc' = "taluk"
              /\ files' = files
              /\ handed' = handed
        /\ IsDistinct(hfetches')
        /\ (wpc' \in { "finished", "crashed" } /\ skippedD' \cup skippedT' # {}) =>
              visitedD' = 1..Len(target_districts) ]_vars

\* C10 as stated: a failed or empty level-1 fetch ends the run before any
\* other fetch and any extraction, and nothing else ends the run early: the
\* run never dies of an exception.
C10_OnlyLevel1FatalAsStated ==
    /\ wpc = "aborted" => (Len(hfetches) = 1 /\ handed = << >>)
    /\ wpc # "crashed"

\* plot numbers of the features this call built whose write did not succeed
\* (line 168 ran, line 192 did not)
UnsavedNos == PlotNosOf(all_features) \ existing_plot_nos

\* C11 as stated: a plot whose write failed and that existing_plot_nos does
\* not hold is, at the end of the run, absent from the file on disk, also
\* when later plots of the run were persisted.
C11_WriteFailureAsStated ==
    (Loaded /\ epc = "done") =>
        \A p \in UnsavedNos : p \notin FilePlotNos(CurrentFile)

\* plot fetches of this call that yielded a feature
FetchSuccesses == Len(all_features) - Len(LoadedFeatures(fileAtStart))

\* C12 as stated: in the file a call has just written, total_plots is the
\* length of the fetched plot list, successful_plots the number of features in
\* the file, and failed_plots the number of plot fetches attempted so far
\* minus the number that succeeded, hence never negative, resumed runs
\* included.
C12_MetadataCountersAsStated ==
    (Loaded /\ lastOutcome = "saved") =>
        /\ CurrentFile.meta.total_plots = Len(plot_list)
        /\ CurrentFile.meta.successful_plots = Len(CurrentFile.features)
        /\ CurrentFile.meta.failed_plots = Len(fetched) - FetchSuccesses
        /\ CurrentFile.meta.failed_plots >= 0

\* C14 as stated: every feature the extractor holds for the village has the
\* district, taluk and village names it was called with under the keys
\* district, taluk and village, also when the service's record has keys of
\* those names, and every other raw attribute with its raw value.
C14_ContextKeysAsStated ==
    Loaded =>
        \A k \in 1..Len(all_features) :
            /\ all_features[k].district = district_name
            /\ all_features[k].taluk = taluk_name
            /\ all_features[k].village = village_name
            /\ all_features[k].owner = RawAttrs(all_features[k].plotno).owner

\* the plot numbers the call loaded from the file cover the fetched plot list
ListCovered == Loaded /\ plot_list # << >> /\ SeqRange(plot_list) \subseteq loadedNos

\* C13: when every plot number of the fetched list is among the numbers loaded
\* from the file (the file may hold more numbers, the list may repeat one),
\* the call fetches no plot detail, never pauses and writes nothing.
C13_ResumeShortCircuit ==
    ListCovered =>
        /\ fetched = << >>
        /\ sleeps = 0
        /\ writes = 0
        /\ CurrentFile = fileAtStart

\* a call walked the whole two-plot list over a file that holds one plot more
C13_Witness ==
    /\ ListCovered
    /\ epc = "done"
    /\ Len(plot_list) = 2
    /\ loadedNos \ SeqRange(plot_list) # {}

\* C20 as stated: the 'already scraped' exit is taken only when every plot
\* number of the fetched list has a feature among those loaded from the file.
C20_CompleteOnlyIfCoveredAsStated ==
    (epc = "returned" /\ plot_list # << >>) =>
        SeqRange(plot_list) \subseteq PlotNosOf(LoadedFeatures(fileAtStart))

\* the villages of the taluk being walked, as the service listed them
Discovered == Level3Items(district_code, taluk_code)

\* how many villages of the taluk being walked have been handed to the extractor
HandedOfTaluk == IF wpc = "extract" THEN vIdx ELSE vIdx - 1

C16_NoneIdentifierSkipAsStated ==
    (epc # "idle" /\ ~Truthy(gis_code)) =>
        /\ epc \in { "entry", "checkgis", "returned" }
        /\ plot_list = << >>
        /\ fetched = << >>
        /\ writes = 0
        /\ epc # "entry" =>
              /\ village_info = LoadedVillageInfo(fileAtStart)
              /\ CurrentFile = fileAtStart

\* C17: when the plot-list fetch fails or answers an empty list, the call
\* returns at once: no plot detail is fetched, nothing is written and the
\* output file, missing or not, is as the call found it.
C17_EmptyPlotListAborts ==
    [][ (epc = "plist" /\ plot_list' = << >>) =>
            /\ epc' = "returned"
            /\ files' = files
            /\ files'[output_path] = fileAtStart
            /\ fetched' = << >>
            /\ writes' = 0
            /\ sleeps' = 0 ]_vars

\* a second run got no plot list and returned over the file of the first run
C17_Witness ==
    /\ epc = "returned"
    /\ Truthy(gis_code)
    /\ plot_list = << >>
    /\ IsParseable(fileAtStart)
    /\ Len(fileAtStart.features) = 2
    /\ CurrentFile = fileAtStart

\* in the call so far the plot list was obtained, every plot fetch yielded a
\* feature and every write succeeded
CleanSoFar ==
    /\ failedNos = {}
    /\ writes = Cardinality(existing_plot_nos \ loadedNos)
    /\ epc \in { "check", "loop", "returned", "done" } => plot_list = remotePlots[gis_code]

\* C18 as stated: a re-run after an external termination, with every fetch
\* and write succeeding, does not raise over the file the termination left
\* and ends with a file that holds each plot of the list exactly once.
C18_CrashRecoveryAsStated ==
    (runs >= 2 /\ Truthy(gis_code) /\ remotePlots[gis_code] # << >> /\ CleanSoFar) =>
        /\ epc # "raised"
        /\ epc \in { "returned", "done" } =>
              /\ IsParseable(CurrentFile)
              /\ \A p \in SeqRange(plot_list) :
                    Cardinality({ k \in 1..Len(CurrentFile.features) :
                                     CurrentFile.features[k].plotno = p }) = 1

\* two extractor calls of one walk for villages of the same district (their
\* identifiers share category, map type and district code) with different
\* (taluk name, village name) pairs
DistinctVillages(a, b) ==
    /\ Truthy(a[3]) /\ Truthy(b[3])
    /\ SubSeq(a[3], 1, 3) = SubSeq(b[3], 1, 3)
    /\ << a[1], a[2] >> # << b[1], b[2] >>

\* C19 as stated: different villages of a district get different output
\* paths, no file holds features fetched under two identifiers, and a call
\* never resumes from features fetched under another village's identifier.
C19_NoSharedFileAsStated ==
    /\ \A a, b \in SeqRange(handed) :
          DistinctVillages(a, b) =>
              OutputPath(<< >>, a[1], a[2]) # OutputPath(<< >>, b[1], b[2])
    /\ \A p \in Paths :
          IsParseable(files[p]) =>
              \A a, b \in 1..Len(files[p].features) :
                  files[p].features[a].gis = files[p].features[b].gis
    /\ (wpc = "extract" /\ Loaded /\ Truthy(gis_code)) =>
          \A k \in 1..Len(all_features) : all_features[k].gis = gis_code

====
